---- MODULE Spec2Model ----
(***************************************************************************)
(* A model of the HTTP/1.1 engine of RustHttpServer: the connection driver *)
(* (src/src/server.rs), the request decoder (src/src/request.rs), the      *)
(* response encoder (src/src/response.rs) and the static dispatcher        *)
(* (src/src/router.rs, src/src/handler.rs).                                *)
(*                                                                         *)
(* A byte is a one-character string; a byte above 0x7F is written "xHH".   *)
(* Text and byte vectors are sequences of bytes.  B("GET") is <<"G", "E",  *)
(* "T">>.  Indices are 1-based where the Rust code is 0-based.             *)
(***************************************************************************)
EXTENDS Integers, Sequences, FiniteSets, TLC

\* ------------------------------------------------------------------------
\* Bytes and text
\* ------------------------------------------------------------------------

\* a string literal of the source, as its sequence of bytes
B(s) == [i \in 1..Len(s) |-> SubSeq(s, i, i)]

\* the printable ASCII characters, 0x20 .. 0x7E, in code order
\* (the grave accent, 0x60, is written "x60")
Ascii ==
    B(" !\"#$%&'()*+,-./0123456789:;<=>?@ABCDEFGHIJKLMNOPQRSTUVWXYZ[\\]^_")
        \o <<"x60">> \o B("abcdefghijklmnopqrstuvwxyz{|}~")

AsciiSet == {Ascii[i] : i \in DOMAIN Ascii}

\* the code of an ASCII byte
ByteOf ==
    [c \in AsciiSet \cup {"\t", "\n", "\r"} |->
        CASE c = "\t" -> 9
          [] c = "\n" -> 10
          [] c = "\r" -> 13
          [] OTHER -> 31 + (CHOOSE i \in DOMAIN Ascii : Ascii[i] = c)]

\* a byte that no UTF-8 text contains
InvalidByte == "xFF"

\* char::is_whitespace on the bytes of the model
IsSpace(c) == c \in {" ", "\t", "\n", "\r"}

\* char::to_lowercase on one ASCII byte
LowerOf ==
    [c \in AsciiSet |->
        IF ByteOf[c] >= 65 /\ ByteOf[c] <= 90 THEN Ascii[ByteOf[c] + 32 - 31] ELSE c]

\* str::to_lowercase
ToLower(s) == [i \in 1..Len(s) |-> IF s[i] \in AsciiSet THEN LowerOf[s[i]] ELSE s[i]]

SetMin(S) == CHOOSE x \in S : \A y \in S : x <= y

SetMax(S) == CHOOSE x \in S : \A y \in S : x >= y

\* str::starts_with / slice::starts_with
StartsWith(s, p) == Len(p) <= Len(s) /\ SubSeq(s, 1, Len(p)) = p

\* slice::ends_with
EndsWith(s, p) == Len(p) <= Len(s) /\ SubSeq(s, Len(s) - Len(p) + 1, Len(s)) = p

\* the 1-based index of the first occurrence of p in s, 0 when there is none
\* (slice::windows(n).position, str::find)
FindSub(s, p) ==
    LET first(at) == IF at = {} THEN 0 ELSE SetMin(at)
    IN  first({i \in 1..(Len(s) - Len(p) + 1) : SubSeq(s, i, i + Len(p) - 1) = p})

\* str::split(pat): the pieces between the occurrences of pat
RECURSIVE Split(_, _)
Split(s, p) ==
    LET cut(i) ==
            IF i = 0 THEN <<s>>
            ELSE <<SubSeq(s, 1, i - 1)>> \o Split(SubSeq(s, i + Len(p), Len(s)), p)
    IN  cut(FindSub(s, p))

\* str::splitn(2, pat): at most two pieces, cut at the first occurrence
SplitN2(s, p) ==
    LET cut(i) ==
            IF i = 0 THEN <<s>>
            ELSE <<SubSeq(s, 1, i - 1), SubSeq(s, i + Len(p), Len(s))>>
    IN  cut(FindSub(s, p))

\* str::trim
Trim(s) ==
    LET cut(keep) == IF keep = {} THEN <<>> ELSE SubSeq(s, SetMin(keep), SetMax(keep))
    IN  cut({i \in 1..Len(s) : ~IsSpace(s[i])})

\* str::lines: cut after every "\n"; a line loses its "\n" and then one "\r";
\* a text that ends with "\n" has no empty last line
Lines(s) ==
    LET strip(l) == IF EndsWith(l, <<"\r">>) THEN SubSeq(l, 1, Len(l) - 1) ELSE l
        of(raw, n) ==
            [i \in 1..(IF raw[n] = <<>> THEN n - 1 ELSE n) |->
                IF i < n THEN strip(raw[i]) ELSE raw[i]]
        count(raw) == of(raw, Len(raw))
    IN  count(Split(s, <<"\n">>))

\* str::split_whitespace: the maximal runs of non-whitespace
RECURSIVE SplitWhitespace(_)
SplitWhitespace(s) ==
    LET word(a, b) == <<SubSeq(s, a, b - 1)>> \o SplitWhitespace(SubSeq(s, b, Len(s)))
        to(a, stop) == word(a, IF stop = {} THEN Len(s) + 1 ELSE SetMin(stop))
        from(a) == to(a, {i \in a..Len(s) : IsSpace(s[i])})
        start(keep) == IF keep = {} THEN <<>> ELSE from(SetMin(keep))
    IN  start({i \in 1..Len(s) : ~IsSpace(s[i])})

Digits == B("0123456789")

IsDigit(c) == \E i \in DOMAIN Digits : Digits[i] = c

DigitValue(c) == (CHOOSE i \in DOMAIN Digits : Digits[i] = c) - 1

\* the value of a non-empty run of decimal digits
RECURSIVE DecimalValue(_)
DecimalValue(s) ==
    IF Len(s) = 0 THEN 0
    ELSE 10 * DecimalValue(SubSeq(s, 1, Len(s) - 1)) + DigitValue(s[Len(s)])

\* str::parse::<usize>: an optional "+", then one or more digits and nothing
\* else (no whitespace is skipped); -1 stands for Err.  The digit runs of the
\* model are short, so the overflow error of parse is out of its range.
ParseUsize(s) ==
    LET digits(d) ==
            IF Len(d) = 0 THEN -1
            ELSE IF \A i \in 1..Len(d) : IsDigit(d[i]) THEN DecimalValue(d) ELSE -1
    IN  digits(IF Len(s) > 0 /\ s[1] = "+" THEN Tail(s) ELSE s)

\* format!("{}", n) for a usize
RECURSIVE ToDecimal(_)
ToDecimal(n) ==
    IF n < 10 THEN <<Digits[n + 1]>> ELSE ToDecimal(n \div 10) \o <<Digits[(n % 10) + 1]>>

\* the bytes of s form valid UTF-8 (String::from_utf8 succeeds).  The streams
\* of the model hold ASCII and InvalidByte only.
IsUtf8(s) == \A i \in 1..Len(s) : s[i] # InvalidByte

CRLF == <<"\r", "\n">>

CRLFCRLF == <<"\r", "\n", "\r", "\n">>

\* ------------------------------------------------------------------------
\* Option, Result and maps
\* ------------------------------------------------------------------------

None == [some |-> FALSE]

Some(v) == [some |-> TRUE, val |-> v]

Ok(v) == [tag |-> "Ok", val |-> v]

\* Fail::new(msg) / Fail::from(msg): an error value carrying its message
Err(msg) == [tag |-> "Err", msg |-> msg]

\* a panic of the task that evaluates the expression
Panic == [tag |-> "Panic"]

\* BTreeMap::new
EmptyMap == <<>>

\* BTreeMap::insert: the later value replaces the earlier one
Insert(m, k, v) == (k :> v) @@ m

\* the byte-wise order of two texts (Ord for str)
RECURSIVE LexLess(_, _)
LexLess(a, b) ==
    IF Len(b) = 0 THEN FALSE
    ELSE IF Len(a) = 0 THEN TRUE
    ELSE IF a[1] = b[1] THEN LexLess(Tail(a), Tail(b))
    ELSE ByteOf[a[1]] < ByteOf[b[1]]

\* the keys of a BTreeMap in iteration order
RECURSIVE SortedKeys(_)
SortedKeys(K) ==
    IF K = {} THEN <<>>
    ELSE LET rest(k) == <<k>> \o SortedKeys(K \ {k})
         IN  rest(CHOOSE x \in K : \A y \in K \ {x} : LexLess(x, y))

\* concatenation of a sequence of sequences
RECURSIVE Flatten(_)
Flatten(ss) == IF Len(ss) = 0 THEN <<>> ELSE Head(ss) \o Flatten(Tail(ss))

\* ------------------------------------------------------------------------
\* Messages of the failures
\* ------------------------------------------------------------------------

\* server.rs:105: the UTF-8 bytes of the message literal (27 bytes)
MsgHeaderTooLarge ==
    <<"xE8", "xAF", "xB7", "xE6", "xB1", "x82", "xE5", "xA4", "xB4", "xE5",
      "xA4", "xA7", "xE5", "xB0", "x8F", "xE8", "xB6", "x85", "xE5", "x87",
      "xBA", "xE9", "x99", "x90", "xE5", "x88", "xB6">>
\* server.rs:120: the UTF-8 bytes of the message literal (21 bytes)
MsgHeaderAttempts ==
    <<"xE8", "xAF", "xBB", "xE5", "x8F", "x96", "xE8", "xAF", "xB7", "xE6",
      "xB1", "x82", "xE5", "xA4", "xB4", "xE5", "xA4", "xB1", "xE8", "xB4",
      "xA5">>
\* server.rs:125: the UTF-8 bytes of the message literal (21 bytes)
MsgHeaderReadFailed ==
    <<"xE8", "xAF", "xB7", "xE6", "xB1", "x82", "xE5", "xA4", "xB4", "xE8",
      "xAF", "xBB", "xE5", "x8F", "x96", "xE5", "xA4", "xB1", "xE8", "xB4",
      "xA5">>
\* server.rs:149: the UTF-8 bytes of the message literal (27 bytes)
MsgBodyTooLarge ==
    <<"xE8", "xAF", "xB7", "xE6", "xB1", "x82", "xE4", "xBD", "x93", "xE5",
      "xA4", "xA7", "xE5", "xB0", "x8F", "xE8", "xB6", "x85", "xE5", "x87",
      "xBA", "xE9", "x99", "x90", "xE5", "x88", "xB6">>
\* server.rs:160 and :167: the UTF-8 bytes of the message literal (21 bytes)
MsgBodyReadFailed ==
    <<"xE8", "xAF", "xB7", "xE6", "xB1", "x82", "xE4", "xBD", "x93", "xE8",
      "xAF", "xBB", "xE5", "x8F", "x96", "xE5", "xA4", "xB1", "xE8", "xB4",
      "xA5">>
\* request.rs:71: the UTF-8 bytes of the message literal (21 bytes)
MsgNoRequestLine ==
    <<"xE8", "x8E", "xB7", "xE5", "x8F", "x96", "xE8", "xAF", "xB7", "xE6",
      "xB1", "x82", "xE8", "xA1", "x8C", "xE5", "xA4", "xB1", "xE8", "xB4",
      "xA5">>
\* request.rs:77: the UTF-8 bytes of the message literal (24 bytes)
MsgNoMethod ==
    <<"xE6", "x97", "xA0", "xE6", "xB3", "x95", "xE8", "xA7", "xA3", "xE6",
      "x9E", "x90", "xE8", "xAF", "xB7", "xE6", "xB1", "x82", "xE6", "x96",
      "xB9", "xE6", "xB3", "x95">>
\* request.rs:84: the UTF-8 bytes of the message literal (24 bytes)
MsgNoUrl ==
    <<"xE6", "x97", "xA0", "xE6", "xB3", "x95", "xE8", "xA7", "xA3", "xE6",
      "x9E", "x90", "xE8", "xAF", "xB7", "xE6", "xB1", "x82", "xE5", "x9C",
      "xB0", "xE5", "x9D", "x80">>
\* request.rs:96: the UTF-8 bytes of the message literal (28 bytes)
MsgNoVersion ==
    <<"xE6", "x97", "xA0", "xE6", "xB3", "x95", "xE8", "xA7", "xA3", "xE6",
      "x9E", "x90", "h", "t", "t", "p", "xE5", "x8D", "x8F", "xE8", "xAE",
      "xAE", "xE7", "x89", "x88", "xE6", "x9C", "xAC">>
\* request.rs:179: the UTF-8 bytes of the message literal (23 bytes)
MsgNoBoundary ==
    <<"xE6", "xB2", "xA1", "xE6", "x9C", "x89", "xE6", "x9C", "x89", "xE6",
      "x95", "x88", "xE7", "x9A", "x84", "b", "o", "u", "n", "d", "a", "r",
      "y">>
\* request.rs:231: the UTF-8 bytes of the message literal (28 bytes)
MsgNoName ==
    <<"xE8", "xA1", "xA8", "xE5", "x8D", "x95", "xE5", "x86", "x85", "xE5",
      "xAE", "xB9", "xE6", "xB2", "xA1", "xE6", "x9C", "x89", "n", "a", "m",
      "e", "xE5", "xB1", "x9E", "xE6", "x80", "xA7">>
\* request.rs:234: the UTF-8 bytes of the message literal (18 bytes)
MsgCorruptForm ==
    <<"xE8", "xA1", "xA8", "xE5", "x8D", "x95", "xE5", "x86", "x85", "xE5",
      "xAE", "xB9", "xE6", "x8D", "x9F", "xE5", "x9D", "x8F">>
\* request.rs:254: the UTF-8 bytes of the message literal (15 bytes)
MsgBadParameter ==
    <<"xE6", "x8D", "x9F", "xE5", "x9D", "x8F", "xE7", "x9A", "x84", "xE5",
      "x8F", "x82", "xE6", "x95", "xB0">>

\* the Display text of the FromUtf8Error of a text whose first invalid byte
\* is at 0-based index i
MsgInvalidUtf8(i) == B("invalid utf-8 sequence of 1 bytes from index ") \o ToDecimal(i)

\* Fail's Display: the message it was made with (err.to_string())
FailToString(e) == e.msg

\* String::from_utf8(bytes)?: the text, or the conversion error as a Fail
FromUtf8(bytes) ==
    IF IsUtf8(bytes) THEN Ok(bytes)
    ELSE Err(MsgInvalidUtf8(FindSub(bytes, <<InvalidByte>>) - 1))

\* String::from_utf8_lossy: an invalid byte becomes U+FFFD
FromUtf8Lossy(bytes) ==
    Flatten([i \in 1..Len(bytes) |->
        IF bytes[i] = InvalidByte THEN <<"xEF", "xBF", "xBD">> ELSE <<bytes[i]>>])

\* ------------------------------------------------------------------------
\* Content types (crate::constant)
\* ------------------------------------------------------------------------

TEXT_PLAIN == B("text/plain")

TEXT_HTML == B("text/html")

TEXT_CSS == B("text/css")

TEXT_JAVASCRIPT == B("text/javascript")

APPLICATION_X_WWW_FORM_URLENCODED == B("application/x-www-form-urlencoded")

MULTIPART_FORM_DATA == B("multipart/form-data")

\* ------------------------------------------------------------------------
\* Response encoder (src/src/response.rs)
\* ------------------------------------------------------------------------

HttpStatus == {"Ok", "BadRequest", "NotFound", "InternalServerError"}

\* HttpStatus::to_str
StatusToStr(st) ==
    CASE st = "Ok" -> B("200 OK")
      [] st = "BadRequest" -> B("400 Bad Request")
      [] st = "NotFound" -> B("404 Not Found")
      [] st = "InternalServerError" -> B("500 Internal Server Error")

\* HttpResponse::default
DefaultResponse ==
    [version |-> B("HTTP/1.1"),
     status |-> "Ok",
     headers |-> Insert(Insert(EmptyMap, B("Content-Type"), TEXT_PLAIN),
                        B("Server"), B("FlapyPan/my-http-server")),
     body |-> None]

\* the caller's headers put over the defaults, in any order (the keys of a
\* map are distinct)
InsertAll(into, hs) == hs @@ into

\* HttpResponse::new(status, headers, body); headers is an Option of a map
NewResponse(status, headers, body) ==
    [DefaultResponse EXCEPT
        !.status = status,
        !.headers = IF headers.some THEN InsertAll(@, headers.val) ELSE @,
        !.body = body]

\* HttpResponse::not_found(body)
NotFoundResponse(body) ==
    [DefaultResponse EXCEPT
        !.status = "NotFound",
        !.headers = Insert(@, B("Content-Type"), TEXT_HTML),
        !.body = body]

\* HttpResponse::headers: "{k}: {v}\r\n" for every header, in key order
HeadersString(r) ==
    LET lines(ks) ==
            Flatten([i \in 1..Len(ks) |-> ks[i] \o B(": ") \o r.headers[ks[i]] \o CRLF])
    IN  lines(SortedKeys(DOMAIN r.headers))

\* the length to_vec prints: self.body.as_ref().map_or(0, |b| b.len())
BodyLen(r) == IF r.body.some THEN Len(r.body.val) ELSE 0

\* HttpResponse::to_vec
ToVec(r) ==
    r.version \o B(" ") \o StatusToStr(r.status) \o CRLF
        \o HeadersString(r)
        \o B("Content-Length: ") \o ToDecimal(BodyLen(r)) \o CRLFCRLF
        \o (IF r.body.some THEN r.body.val ELSE <<>>)

\* ------------------------------------------------------------------------
\* Request decoder (src/src/request.rs)
\* ------------------------------------------------------------------------

\* the method matched without regard to letter case
MethodFromAnyCase(s) ==
    CASE ToLower(s) = B("options") -> "Options"
      [] ToLower(s) = B("get") -> "Get"
      [] ToLower(s) = B("post") -> "Post"
      [] OTHER -> "Unknown"

\* impl From<&str> for HttpMethod
MethodFrom(s) ==
    CASE s = B("OPTIONS") -> "Options"
      [] s = B("GET") -> "Get"
      [] s = B("POST") -> "Post"
      [] OTHER -> "Unknown"

\* impl From<&str> for HttpVersion
VersionFrom(s) ==
    CASE s = B("HTTP/1.1") -> "V1_1"
      [] s = B("HTTP/2.0") -> "V2_0"
      [] OTHER -> "Unknown"

\* parse_parameters(raw, process_value): one entry per piece of raw.split('&'),
\* cut at its first '='; process_value keeps the bytes of the value in both
\* uses (|v| v and |v| v.as_bytes().to_vec()).  ps.next() is always Some, so
\* the result is always Ok.
RECURSIVE ParamsOf(_, _)
ParamsOf(pieces, params) ==
    IF Len(pieces) = 0 THEN params
    ELSE LET entry(ps) ==
                 ParamsOf(Tail(pieces),
                     Insert(params, ToLower(Trim(ps[1])),
                            IF Len(ps) = 2 THEN Trim(ps[2]) ELSE <<>>))
         IN  entry(SplitN2(Head(pieces), <<"=">>))

\* the pieces entered from the last to the first: the first occurrence of a
\* key wins
parse_parameters_first_wins(raw) ==
    LET entered(pieces) ==
            Ok(ParamsOf([i \in 1..Len(pieces) |-> pieces[Len(pieces) + 1 - i]], EmptyMap))
    IN  entered(Split(raw, <<"&">>))

parse_parameters(raw) == Ok(ParamsOf(Split(raw, <<"&">>), EmptyMap))

\* crate::utils::split(bytes, separator): the pieces between the occurrences
\* of the separator
split(bytes, sep) == Split(bytes, sep)

\* the name attribute of a Content-Disposition line (request.rs 213-220):
\* the first ';'-piece that starts with "name=" decides; its value loses its
\* first and last byte.  A value shorter than 2 bytes is a slice out of range.
DispositionName(line_str) ==
    LET pick(trimmed) ==
            LET first(hits) ==
                    IF hits = {} THEN Ok(None)
                    ELSE LET cut(name) ==
                                 IF Len(name) < 2 THEN Panic
                                 ELSE Ok(Some(ToLower(SubSeq(name, 2, Len(name) - 1))))
                         IN  cut(Split(trimmed[SetMin(hits)], <<"=">>)[2])
            IN  first({i \in 1..Len(trimmed) : StartsWith(trimmed[i], B("name="))})
        trim_all(parts) == [i \in 1..Len(parts) |-> Trim(parts[i])]
    IN  pick(trim_all(Split(line_str, <<";">>)))

\* the scan of the lines of one multipart section (request.rs 206-229):
\* [name, data_line_idx (0-based)] or a panic
RECURSIVE ScanSection(_, _, _)
ScanSection(lines, i, name) ==
    IF i > Len(lines) THEN Ok([name |-> name, data_line_idx |-> 0])
    ELSE LET next(found) ==
                 IF found.tag = "Panic" THEN Panic
                 ELSE IF Len(lines[i]) = 0
                      THEN Ok([name |-> found.val, data_line_idx |-> i])
                      ELSE ScanSection(lines, i + 1, found.val)
             name_of(line_str) ==
                 IF StartsWith(line_str, B("Content-Disposition:"))
                 THEN DispositionName(line_str)
                 ELSE Ok(name)
         IN  next(name_of(FromUtf8Lossy(lines[i])))

\* the body of the loop over the sections of parse_multipart_form
\* (request.rs 197-237)
RECURSIVE SectionsOf(_, _, _)
SectionsOf(sections, last_sep, params) ==
    IF Len(sections) = 0 THEN Ok(params)
    ELSE LET entry(lines, scan) ==
                 IF scan.tag = "Panic" THEN Panic
                 ELSE IF ~scan.val.name.some THEN Err(MsgNoName)
                 ELSE IF scan.val.data_line_idx + 1 > Len(lines)
                      THEN Err(MsgCorruptForm)
                 ELSE SectionsOf(Tail(sections), last_sep,
                          Insert(params, scan.val.name.val,
                                 lines[scan.val.data_line_idx + 1]))
             scan_lines(lines) == entry(lines, ScanSection(lines, 1, None))
             section_of(raw) ==
                 IF EndsWith(raw, last_sep)
                 THEN IF Len(raw) < Len(last_sep) + 2 THEN Panic
                      ELSE scan_lines(split(
                               SubSeq(raw, 1, Len(raw) - Len(last_sep) - 2), CRLF))
                 ELSE scan_lines(split(raw, CRLF))
         IN  section_of(Head(sections))

\* the last segment dropped instead of stripped of the closing delimiter
parse_multipart_form_drop_last(body, boundary) ==
    LET kept(sections) ==
            SectionsOf(SubSeq(sections, 1, Len(sections) - 1),
                       B("--") \o boundary \o B("--") \o CRLF, EmptyMap)
    IN  kept(Tail(split(body, B("--") \o boundary \o CRLF)))

\* parse_multipart_form(body, boundary)
parse_multipart_form(body, boundary) ==
    SectionsOf(Tail(split(body, B("--") \o boundary \o CRLF)),
               B("--") \o boundary \o B("--") \o CRLF, EmptyMap)

\* the boundary attribute of a Content-Type value (request.rs 160-165): the
\* last ';'-piece that starts with "boundary=" decides
BoundaryOf(s) ==
    LET pick(trimmed) ==
            LET last(hits) ==
                    IF hits = {} THEN None
                    ELSE Some(Split(trimmed[SetMax(hits)], <<"=">>)[2])
            IN  last({i \in 1..Len(trimmed) : StartsWith(trimmed[i], B("boundary="))})
        trim_all(parts) == [i \in 1..Len(parts) |-> Trim(parts[i])]
    IN  pick(trim_all(Split(s, <<";">>)))

\* parse_body(headers, body)
parse_body(headers, body) ==
    LET by_type(content_type, boundary) ==
            IF StartsWith(content_type, APPLICATION_X_WWW_FORM_URLENCODED)
            THEN LET params(text) ==
                         IF text.tag = "Err" THEN text ELSE parse_parameters(text.val)
                 IN  params(FromUtf8(body))
            ELSE IF StartsWith(content_type, MULTIPART_FORM_DATA)
            THEN IF boundary.some THEN parse_multipart_form(body, boundary.val)
                 ELSE Err(MsgNoBoundary)
            ELSE Ok(Insert(EmptyMap, B("__raw"), body))
    IN  IF B("content-type") \in DOMAIN headers
        THEN by_type(Trim(headers[B("content-type")]),
                     BoundaryOf(headers[B("content-type")]))
        ELSE by_type(TEXT_PLAIN, None)

\* the header lines of the request (request.rs 100-106)
RECURSIVE HeadersOf(_, _)
HeadersOf(lines, headers) ==
    IF Len(lines) = 0 THEN headers
    ELSE LET entry(split_hl) ==
                 HeadersOf(Tail(lines),
                     IF Len(split_hl) = 2
                     THEN Insert(headers, ToLower(Trim(split_hl[1])), Trim(split_hl[2]))
                     ELSE headers)
         IN  entry(SplitN2(Head(lines), <<":">>))

\* HttpRequest::from(raw_header, raw_body, ip)
HttpRequestFrom(raw_header, raw_body, ip) ==
    LET build(words, headers) ==
            LET finish(split_url, body) ==
                    IF body.tag # "Ok" THEN body
                    ELSE Ok([method |-> MethodFrom(words[1]),
                             url |-> split_url[1],
                             version |-> VersionFrom(words[3]),
                             ip |-> ip,
                             headers |-> headers,
                             search_params |->
                                 parse_parameters(IF Len(split_url) = 2
                                                  THEN split_url[2] ELSE <<>>).val,
                             _body |-> body.val])
            IN  IF Len(words) = 0 THEN Err(MsgNoMethod)
                \* with fewer than 2 words the url is "/" and the version is missing
                ELSE IF Len(words) < 3 THEN Err(MsgNoVersion)
                ELSE finish(SplitN2(words[2], <<"?">>), parse_body(headers, raw_body))
        from_lines(header) ==
            IF Len(header) = 0 THEN Err(MsgNoRequestLine)
            ELSE build(SplitWhitespace(header[1]), HeadersOf(Tail(header), EmptyMap))
    IN  from_lines(Lines(raw_header))

\* ------------------------------------------------------------------------
\* Dispatcher (src/src/router.rs, src/src/handler.rs)
\* ------------------------------------------------------------------------

\* the contents of the static directory the handler may find: a map from file
\* name to file contents
FileSystems ==
    {EmptyMap,
     Insert(Insert(Insert(EmptyMap, B("index.html"), B("<p>")),
                   B("404.html"), B("?")),
            B("a.css"), B("p{}"))}

\* Handler::load_file(file_name): fs::read(..).ok()
load_file(fs, file_name) ==
    IF file_name \in DOMAIN fs THEN Some(fs[file_name]) ELSE None

\* StaticHandler::handle(req): route[1] is out of range for a url without "/"
StaticHandle(fs, req) ==
    LET file(path, contents) ==
            IF contents.some
            THEN Ok(NewResponse("Ok",
                        Some(Insert(EmptyMap, B("Content-Type"),
                                 IF EndsWith(path, B(".css")) THEN TEXT_CSS
                                 ELSE IF EndsWith(path, B(".js")) THEN TEXT_JAVASCRIPT
                                 ELSE TEXT_HTML)),
                        contents))
            ELSE Ok(NotFoundResponse(load_file(fs, B("404.html"))))
        match(route) ==
            IF Len(route) < 2 THEN Panic
            ELSE IF route[2] = <<>>
            THEN Ok(NewResponse("Ok",
                        Some(Insert(EmptyMap, B("Content-Type"), TEXT_HTML)),
                        load_file(fs, B("index.html"))))
            ELSE file(route[2], load_file(fs, route[2]))
    IN  match(Split(req.url, <<"/">>))

\* Router::route(req)
Route(fs, req) == StaticHandle(fs, req)

\* ------------------------------------------------------------------------
\* Settings (src/src/server.rs, HttpSettings)
\* ------------------------------------------------------------------------

\* HttpSettings::new
DefaultMaxHeaderSize == 8192

DefaultMaxBodySize == 8192 * 1024

DefaultHeaderBuffer == 8192

DefaultBodyBuffer == 8192

DefaultHeaderReadAttempts == 3

DefaultBodyReadAttempts == 3

DefaultSettings ==
    [max_header_size |-> DefaultMaxHeaderSize,
     max_body_size |-> DefaultMaxBodySize,
     header_buffer |-> DefaultHeaderBuffer,
     body_buffer |-> DefaultBodyBuffer,
     header_read_attempts |-> DefaultHeaderReadAttempts,
     body_read_attempts |-> DefaultBodyReadAttempts]

\* the small values of the knobs the model also runs with
SmallMaxHeaderSize == 21

SmallMaxBodySize == 2

SmallHeaderBuffer == 6

SmallBodyBuffer == 2

MaxAttempts == 1

\* the settings a server of the model is started with
SettingsSet ==
    [max_header_size : {SmallMaxHeaderSize, DefaultMaxHeaderSize},
     max_body_size : {SmallMaxBodySize, DefaultMaxBodySize},
     header_buffer : {SmallHeaderBuffer, DefaultHeaderBuffer},
     body_buffer : {SmallBodyBuffer, DefaultBodyBuffer},
     header_read_attempts : 0..MaxAttempts,
     body_read_attempts : 0..MaxAttempts]
    \cup {DefaultSettings}

\* ------------------------------------------------------------------------
\* Connection driver (src/src/server.rs)
\* ------------------------------------------------------------------------

\* get_content_length(head): the last line whose key is content-length
\* decides; a value parse::<usize> rejects counts as 0
RECURSIVE ContentLengthOf(_, _)
ContentLengthOf(lines, size) ==
    IF Len(lines) = 0 THEN size
    ELSE LET value(parsed) == IF parsed >= 0 THEN parsed ELSE 0
             line(split_hl) ==
                 ContentLengthOf(Tail(lines),
                     IF /\ Len(split_hl) = 2
                        /\ ToLower(Trim(split_hl[1])) = B("content-length")
                     THEN value(ParseUsize(split_hl[2]))
                     ELSE size)
         IN  line(SplitN2(Head(lines), <<":">>))

get_content_length(head) == ContentLengthOf(Lines(head), 0)

\* the peers that may connect, and the address of each
Peers == {"c1", "c2"}

PeerIp(c) == IF c = "c1" THEN B("127.0.0.1") ELSE B("127.0.0.2")

VARIABLES
    settings,   \* the HttpSettings the server was started with (Arc, read-only)
    peers,      \* the peers that connect during the run
    task,       \* per connection: the locals of its task (Server::run 51-60)
    stream,     \* per connection: the TcpStream: bytes sent, consumed, written
    hist,       \* per connection: what has happened (history only)
    call        \* one call of HttpResponse::new(..).to_vec(): arguments, result

vars == <<settings, peers, task, stream, hist, call>>

\* a task that was not spawned yet
IdleTask ==
    [pc |-> "idle", header |-> <<>>, body |-> <<>>, read_fails |-> 0,
     content_length |-> 0, request |-> None, response |-> None, err |-> None]

IdleStream == [data |-> <<>>, pos |-> 0, written |-> <<>>]

IdleHist ==
    [phases |-> <<>>,       \* the phases of the connection, in the order entered
     routed |-> 0,          \* the calls of Router::route
     head_short |-> 0,      \* the reads of read_head that were short of the boundary
     straddle |-> FALSE,    \* a read of read_head began inside the boundary
     head_ok |-> FALSE,     \* read_head returned the header block
     body_reads |-> 0,      \* the reads of read_body
     body_short |-> 0,      \* its reads that returned less than asked, body incomplete
     body_read_err |-> FALSE]   \* a read of read_body returned an error

\* `return Fail::from(..)` / `?`: handle_conn returns Err(e) to Server::run
FailWith(t, e) == [t EXCEPT !.pc = "failed", !.err = Some(e)]

\* the size check applied to the bytes accumulated before the read only
header_too_large_before_read(hs, header, length) == Len(header) > hs.max_header_size

\* server.rs 104: the bytes accumulated and the bytes just read exceed the limit
header_too_large(hs, header, length) == Len(header) + length > hs.max_header_size

\* the split made one byte before the end of the boundary
split_inside_boundary(header, pos) ==
    <<SubSeq(header, 1, pos + 3), SubSeq(header, pos + 4, Len(header))>>

\* server.rs 112: header.split_at(pos + 4), pos the 0-based place of the boundary
split_at_boundary(header, pos) ==
    <<SubSeq(header, 1, pos + 4), SubSeq(header, pos + 5, Len(header))>>

\* server.rs 117: the read did not fill the header buffer
header_short_read(hs, length) == length < hs.header_buffer

\* the budget of short header reads taken as used up one read early
header_budget_spent_early(hs, read_fails) == read_fails >= hs.header_read_attempts

\* server.rs 119: the budget of short header reads is used up
header_budget_spent(hs, read_fails) == read_fails > hs.header_read_attempts

\* one iteration of the loop of read_head (server.rs 99-123) with the result
\* r of its stream.read, and the exit of the loop (125)
read_head(hs, t, r) ==
    IF r.tag = "Err" \/ Len(r.val) = 0 THEN FailWith(t, Err(MsgHeaderReadFailed))
    ELSE IF header_too_large(hs, t.header, Len(r.val))
    THEN FailWith(t, Err(MsgHeaderTooLarge))
    ELSE LET found(header, rest, text) ==
                 IF text.tag = "Err"
                 THEN FailWith([t EXCEPT !.header = header], text)
                 ELSE [t EXCEPT !.header = text.val, !.body = rest, !.pc = "got_head"]
             cut(header, parts) == found(header, parts[2], FromUtf8(parts[1]))
             search(header, pos) ==
                 IF pos >= 0
                 THEN cut(header, split_at_boundary(header, pos))
                 ELSE IF header_short_read(hs, Len(r.val))
                 THEN IF header_budget_spent(hs, t.read_fails + 1)
                      THEN FailWith([t EXCEPT !.header = header,
                                              !.read_fails = t.read_fails + 1],
                                    Err(MsgHeaderAttempts))
                      ELSE [t EXCEPT !.header = header,
                                     !.read_fails = t.read_fails + 1]
                 ELSE [t EXCEPT !.header = header]
             extend(header) == search(header, FindSub(header, CRLFCRLF) - 1)
         IN  extend(t.header \o r.val)

\* the size check refusing a declared length equal to the limit
body_too_large_or_equal(hs, content_len) == content_len >= hs.max_body_size

\* server.rs 148: the declared length exceeds the limit
body_too_large(hs, content_len) == content_len > hs.max_body_size

\* handle_conn from the return of read_head to its next await (server.rs
\* 70-73) and the entry of read_body (148-152)
after_head(hs, t) ==
    LET with(content_length, u) ==
            IF content_length > 0
            THEN IF body_too_large(hs, content_length)
                 THEN FailWith(u, Err(MsgBodyTooLarge))
                 ELSE IF Len(t.body) < content_length
                      THEN [u EXCEPT !.pc = "read_body"]
                      ELSE [u EXCEPT !.pc = "decode"]
            ELSE [u EXCEPT !.pc = "decode"]
        sized(content_length) ==
            with(content_length,
                 [t EXCEPT !.content_length = content_length, !.read_fails = 0])
    IN  sized(get_content_length(t.header))

\* the size of the buffer one iteration of read_body reads into (153-157)
buf_len(hs, t) ==
    LET rest_len == t.content_length - Len(t.body)
    IN  IF rest_len > hs.body_buffer THEN hs.body_buffer ELSE rest_len

\* a read of zero bytes not taken as a short read
body_short_read_nonempty(hs, length) == length > 0 /\ length < hs.body_buffer

\* server.rs 164: the read returned fewer bytes than body_buffer
body_short_read(hs, length) == length < hs.body_buffer

\* server.rs 166: the budget of short body reads is used up
body_budget_spent(hs, read_fails) == read_fails > hs.body_read_attempts

\* one iteration of the loop of read_body (server.rs 152-170) with the
\* result r of its stream.read
read_body(hs, t, r) ==
    IF r.tag = "Err" THEN FailWith(t, Err(MsgBodyReadFailed))
    ELSE LET next(u) ==
                 IF body_short_read(hs, Len(r.val)) /\ body_budget_spent(hs, u.read_fails)
                 THEN FailWith(u, Err(MsgBodyReadFailed))
                 ELSE IF Len(u.body) < t.content_length THEN u
                 ELSE [u EXCEPT !.pc = "decode"]
         IN  next([t EXCEPT !.body = t.body \o r.val,
                            !.read_fails = IF body_short_read(hs, Len(r.val))
                                           THEN t.read_fails + 1 ELSE t.read_fails])

\* the request decoded with the address of the first peer, whatever the
\* connection
decode_first_address(t, ip) ==
    LET result(request) ==
            CASE request.tag = "Ok" ->
                     [t EXCEPT !.request = Some(request.val), !.pc = "route"]
              [] request.tag = "Err" -> FailWith(t, request)
              [] request.tag = "Panic" -> [t EXCEPT !.pc = "panicked"]
    IN  result(HttpRequestFrom(t.header, t.body, PeerIp("c1")))

\* handle_conn 74-75: the decoding of the request
decode(t, ip) ==
    LET result(request) ==
            CASE request.tag = "Ok" ->
                     [t EXCEPT !.request = Some(request.val), !.pc = "route"]
              [] request.tag = "Err" -> FailWith(t, request)
              [] request.tag = "Panic" -> [t EXCEPT !.pc = "panicked"]
    IN  result(HttpRequestFrom(t.header, t.body, ip))

\* handle_conn 76: the call of the dispatcher
dispatch(t, fs) ==
    LET result(response) ==
            IF response.tag = "Panic" THEN [t EXCEPT !.pc = "panicked"]
            ELSE [t EXCEPT !.response = Some(response.val), !.pc = "write"]
    IN  result(Route(fs, t.request.val))

\* the response to a failure built without the message of the failure
error_response_without_message(e) == NewResponse("BadRequest", None, None)

\* Server::run 55-58: the response to a failure of handle_conn
error_response(e) == NewResponse("BadRequest", None, Some(FailToString(e)))

\* the results of one write_stream (server.rs 81-91): everything written and
\* flushed, or an error of write_all or of flush, which is printed
WriteResults == {"ok", "write_all failed", "flush failed"}

\* the results of one stream.read into a buffer of n bytes by connection c: an
\* error, or the next 1..n bytes the peer sent; 0 bytes when the peer sent
\* nothing more and closed, or when the buffer is empty
ReadResults(c, n) ==
    LET s == stream[c]
        left == Len(s.data) - s.pos
    IN  {[tag |-> "Err"]} \cup
        {Ok(SubSeq(s.data, s.pos + 1, s.pos + k)) :
            k \in IF left = 0 \/ n = 0 THEN {0}
                  ELSE 1..(IF left < n THEN left ELSE n)}

Consumed(s, r) == IF r.tag = "Ok" THEN [s EXCEPT !.pos = s.pos + Len(r.val)] ELSE s

\* ------------------------------------------------------------------------
\* The byte streams the peers of the model send
\* ------------------------------------------------------------------------

ReqIndex == B("GET / HTTP/1.1\r\n\r\n")

ReqCss == B("GET /a.css HTTP/1.1\r\nHost: h\r\n\r\n")

ReqMissing == B("GET /x.js?a=1 HTTP/1.1\r\n\r\n")

\* a body announced without a space after the colon
ReqPostTight == B("POST /f HTTP/1.1\r\nContent-Length:4\r\n\r\nabcd")

ReqPostTight2 == B("POST /f HTTP/1.1\r\ncontent-length:2\r\n\r\nab")

\* a body announced in the standard form
ReqPostStd == B("POST /f HTTP/1.1\r\nContent-Length: 2\r\n\r\nab")

\* a request target without "/"
ReqStar == B("OPTIONS * HTTP/1.1\r\n\r\n")

\* a request line without a version
ReqNoVersion == B("GET /\r\n\r\n")

\* a header block that is not UTF-8
ReqBadUtf8 == B("GET /") \o <<InvalidByte>> \o B(" HTTP/1.1\r\n\r\n")

\* a peer that stops before the end of the header block
ReqCut == B("GET / HTTP/1.1\r\n")

\* a peer that stops before the end of the body it announced
ReqBodyCut == B("POST /f HTTP/1.1\r\nContent-Length:3\r\n\r\na")

\* a peer that sends more bytes than the body it announced
ReqPostExtra == B("POST /f HTTP/1.1\r\nContent-Length:1\r\n\r\nab")

Streams ==
    {ReqIndex, ReqCss, ReqMissing, ReqPostTight, ReqPostTight2, ReqPostStd,
     ReqStar, ReqNoVersion, ReqBadUtf8, ReqCut, ReqBodyCut, ReqPostExtra}

\* ------------------------------------------------------------------------
\* The server: one task per accepted connection
\* ------------------------------------------------------------------------

Start(ps) ==
    /\ settings \in SettingsSet
    /\ peers = ps
    /\ task = [c \in Peers |-> IdleTask]
    /\ stream = [c \in Peers |-> IdleStream]
    /\ hist = [c \in Peers |-> IdleHist]

\* no call of the encoder on its own
NoCall == [arg |-> None, ret |-> None]

Init == Start({"c1"}) /\ call = NoCall

\* Server::run 49-53: a connection is accepted and its task spawned; the task
\* runs to its first await, the first read of read_head
Accept(c) ==
    /\ c \in peers
    /\ task[c].pc = "idle"
    /\ \E data \in Streams :
          stream' = [stream EXCEPT ![c].data = data]
    /\ task' = [task EXCEPT ![c].pc = "read_head"]
    /\ hist' = [hist EXCEPT ![c].phases = <<"Accepted", "ReadingHeader">>]
    /\ UNCHANGED <<settings, peers, call>>

\* the read was shorter than the buffer n, not empty, and the bytes read so
\* far hold no end of the header block
ShortOfBoundary(s, r, n) ==
    /\ r.tag = "Ok"
    /\ Len(r.val) > 0
    /\ Len(r.val) < n
    /\ FindSub(SubSeq(s.data, 1, s.pos + Len(r.val)), CRLFCRLF) = 0

\* the bytes consumed so far end inside the first end of the header block
InsideBoundary(s) ==
    LET at(k) == k > 0 /\ s.pos >= k /\ s.pos <= k + 2
    IN  at(FindSub(s.data, CRLFCRLF))

\* one stream.read of read_head and what follows it up to the next await
ReadHead(c) ==
    /\ task[c].pc = "read_head"
    /\ \E r \in ReadResults(c, settings.header_buffer) :
          /\ task' = [task EXCEPT ![c] = read_head(settings, @, r)]
          /\ stream' = [stream EXCEPT ![c] = Consumed(@, r)]
          /\ hist' = [hist EXCEPT
                         ![c].head_short =
                             IF ShortOfBoundary(stream[c], r, settings.header_buffer)
                             THEN @ + 1 ELSE @,
                         ![c].straddle = @ \/ InsideBoundary(stream[c])]
    /\ UNCHANGED <<settings, peers, call>>

\* handle_conn between read_head and the first read of read_body
AfterHead(c) ==
    /\ task[c].pc = "got_head"
    /\ task' = [task EXCEPT ![c] = after_head(settings, @)]
    /\ hist' = [hist EXCEPT
                   ![c].head_ok = TRUE,
                   ![c].phases =
                       IF task'[c].content_length > 0 THEN Append(@, "ReadingBody") ELSE @]
    /\ UNCHANGED <<settings, peers, stream, call>>

\* one stream.read of read_body and what follows it up to the next await
ReadBody(c) ==
    /\ task[c].pc = "read_body"
    /\ \E r \in ReadResults(c, buf_len(settings, task[c])) :
          /\ task' = [task EXCEPT ![c] = read_body(settings, @, r)]
          /\ stream' = [stream EXCEPT ![c] = Consumed(@, r)]
          /\ hist' = [hist EXCEPT
                         ![c].body_reads = @ + 1,
                         ![c].body_read_err = @ \/ r.tag = "Err",
                         ![c].body_short =
                             IF /\ r.tag = "Ok"
                                /\ Len(r.val) < buf_len(settings, task[c])
                                /\ Len(task[c].body) + Len(r.val) < task[c].content_length
                             THEN @ + 1 ELSE @]
    /\ UNCHANGED <<settings, peers, call>>

\* HttpRequest::from
Decode(c) ==
    /\ task[c].pc = "decode"
    /\ task' = [task EXCEPT ![c] = decode(@, PeerIp(c))]
    /\ hist' = [hist EXCEPT ![c].phases = Append(@, "Decoded")]
    /\ UNCHANGED <<settings, peers, stream, call>>

\* Router::route, with the static directory as it is at that moment
Dispatch(c) ==
    /\ task[c].pc = "route"
    /\ \E fs \in FileSystems :
          task' = [task EXCEPT ![c] = dispatch(@, fs)]
    /\ hist' = [hist EXCEPT ![c].phases = Append(@, "Dispatched"),
                            ![c].routed = @ + 1]
    /\ UNCHANGED <<settings, peers, stream, call>>

\* write_stream(stream, content): one attempt, its error only printed
write_stream(s, content, result) ==
    [s EXCEPT !.written = Append(@, [content |-> content, result |-> result])]

\* handle_conn 77-78: the response of the dispatcher is written
WriteResponse(c) ==
    /\ task[c].pc = "write"
    /\ \E result \in WriteResults :
          stream' = [stream EXCEPT ![c] =
                        write_stream(@, ToVec(task[c].response.val), result)]
    /\ task' = [task EXCEPT ![c].pc = "done"]
    /\ hist' = [hist EXCEPT ![c].phases = Append(@, "Responded")]
    /\ UNCHANGED <<settings, peers, call>>

\* Server::run 55-58: handle_conn returned Err(err)
WriteError(c) ==
    /\ task[c].pc = "failed"
    /\ \E result \in WriteResults :
          stream' = [stream EXCEPT ![c] =
                        write_stream(@, ToVec(error_response(task[c].err.val)), result)]
    /\ task' = [task EXCEPT ![c].pc = "done"]
    /\ hist' = [hist EXCEPT ![c].phases = Append(@, "Failed")]
    /\ UNCHANGED <<settings, peers, call>>

Next ==
    \E c \in Peers :
        \/ Accept(c)
        \/ ReadHead(c)
        \/ AfterHead(c)
        \/ ReadBody(c)
        \/ Decode(c)
        \/ Dispatch(c)
        \/ WriteResponse(c)
        \/ WriteError(c)

Spec == Init /\ [][Next]_vars

\* ------------------------------------------------------------------------
\* The response encoder on its own: one call of HttpResponse::new(..).to_vec()
\* ------------------------------------------------------------------------

\* the headers a caller of HttpResponse::new passes
CallerHeaders ==
    {None,
     Some(EmptyMap),
     Some(Insert(EmptyMap, B("Content-Type"), TEXT_HTML)),
     Some(Insert(EmptyMap, B("Content-Length"), B("5"))),
     Some(Insert(Insert(EmptyMap, B("X-A"), B("1")), B("Content-Length"), B("0")))}

\* the bodies a caller of HttpResponse::new passes
CallerBodies ==
    {None, Some(<<>>), Some(B("a")), Some(B("ab")), Some(B("hello")),
     Some(B("0123456789ab")), Some(B("a\r\n\r\nb"))}

InitEncode ==
    /\ settings = DefaultSettings
    /\ peers = {}
    /\ task = [c \in Peers |-> IdleTask]
    /\ stream = [c \in Peers |-> IdleStream]
    /\ hist = [c \in Peers |-> IdleHist]
    /\ \E status \in HttpStatus, headers \in CallerHeaders, body \in CallerBodies :
          call = [arg |-> Some([status |-> status, headers |-> headers, body |-> body]),
                  ret |-> None]

\* HttpResponse::new(status, headers, body).to_vec()
Serialize ==
    /\ call.arg.some
    /\ ~call.ret.some
    /\ call' = [call EXCEPT !.ret =
                    Some(ToVec(NewResponse(call.arg.val.status, call.arg.val.headers,
                                           call.arg.val.body)))]
    /\ UNCHANGED <<settings, peers, task, stream, hist>>

NextEncode == Serialize

SpecEncode == InitEncode /\ [][NextEncode]_vars

\* ------------------------------------------------------------------------
\* Properties of the connection driver
\* ------------------------------------------------------------------------

\* the first line of a serialized response
WireStatusLine(content) == SubSeq(content, 1, FindSub(content, CRLF) - 1)

\* the bytes of a serialized response after its first blank line
WireBody(content) == SubSeq(content, FindSub(content, CRLFCRLF) + 4, Len(content))

\* the value of the last line `content-length:<value>` of a header block (any
\* case of the key) whose value, after `strip`, is a decimal number; 0
\* without such a line
RECURSIVE LengthOfLines(_, _, _)
LengthOfLines(lines, strip(_), n) ==
    IF Len(lines) = 0 THEN n
    ELSE LET kv == SplitN2(Head(lines), <<":">>)
         IN  LengthOfLines(Tail(lines), strip,
                 IF /\ Len(kv) = 2
                    /\ ToLower(kv[1]) = B("content-length")
                    /\ ParseUsize(strip(kv[2])) >= 0
                 THEN ParseUsize(strip(kv[2]))
                 ELSE n)

\* the length a header block declares, whatever blanks surround the value
DeclaredLength(head) == LengthOfLines(Lines(head), Trim, 0)

\* one leading space removed; any other value becomes no number
OneSpace(v) == IF Len(v) > 0 /\ v[1] = " " THEN Tail(v) ELSE <<"?">>

\* the length a header block declares in the form `Content-Length: n`
StandardLength(head) == LengthOfLines(Lines(head), OneSpace, 0)

\* C1: at no time has a connection had two responses written to its stream,
\* and a connection whose task has ended has had exactly one written.
C1_ExactlyOneResponse ==
    \A c \in Peers :
        /\ Len(stream[c].written) <= 1
        /\ task[c].pc \in {"done", "panicked"} => Len(stream[c].written) = 1

\* C2: when handle_conn has returned a failure (of read_head, read_body or
\* HttpRequest::from), the dispatcher was never called for the connection, the
\* phase Failed follows the failing phase directly, and the one response
\* written is a 400 Bad Request whose body is the message of the failure,
\* whatever the result of that write.
C2_FailureIsBadRequest ==
    \A c \in Peers :
        task[c].err.some =>
            /\ task[c].pc \in {"failed", "done"}
            /\ hist[c].routed = 0
            /\ "Dispatched" \notin {hist[c].phases[i] : i \in DOMAIN hist[c].phases}
            /\ task[c].pc = "failed" => stream[c].written = <<>>
            /\ task[c].pc = "done" =>
                  LET ph == hist[c].phases
                      w == stream[c].written
                  IN  /\ Len(w) = 1
                      /\ WireStatusLine(w[1].content) = B("HTTP/1.1 400 Bad Request")
                      /\ WireBody(w[1].content) = task[c].err.val.msg
                      /\ ph[Len(ph)] = "Failed"
                      /\ ph[Len(ph) - 1] \in {"ReadingHeader", "ReadingBody", "Decoded"}

\* a decoding failure was answered, and the write of the answer failed
C2_Witness ==
    \E c \in Peers :
        /\ task[c].pc = "done"
        /\ task[c].err.some
        /\ task[c].err.val.msg = MsgNoVersion
        /\ stream[c].written[1].result = "write_all failed"

PhaseRank(ph) ==
    CASE ph = "Accepted" -> 1
      [] ph = "ReadingHeader" -> 2
      [] ph = "ReadingBody" -> 3
      [] ph = "Decoded" -> 4
      [] ph = "Dispatched" -> 5
      [] ph = "Responded" -> 6
      [] ph = "Failed" -> 7

\* the phases of a connection follow the order Accepted, ReadingHeader,
\* ReadingBody, Decoded, Dispatched, Responded, none entered twice; the body is
\* read only after the header block is complete, the dispatcher is called only
\* after a successful decode, the response is written only after the dispatcher
\* returned
PhasesInOrder(c) ==
    LET ph == hist[c].phases
        entered == {ph[i] : i \in DOMAIN ph}
    IN  /\ \A i \in 1..(Len(ph) - 1) : PhaseRank(ph[i]) < PhaseRank(ph[i + 1])
        /\ Len(ph) >= 1 => ph[1] = "Accepted"
        /\ Len(ph) >= 2 => ph[2] = "ReadingHeader"
        /\ ("ReadingBody" \in entered \/ hist[c].body_reads > 0) => hist[c].head_ok
        /\ "Decoded" \in entered => hist[c].head_ok
        /\ "Dispatched" \in entered => "Decoded" \in entered /\ task[c].request.some
        /\ "Responded" \in entered => "Dispatched" \in entered /\ task[c].response.some

\* C3: the phases of every connection are in order (PhasesInOrder), and
\* ReadingBody is entered if and only if the Content-Length the header block
\* declares is greater than 0.
C3_PhaseOrder ==
    \A c \in Peers :
        /\ PhasesInOrder(c)
        /\ hist[c].head_ok =>
              (("ReadingBody" \in {hist[c].phases[i] : i \in DOMAIN hist[c].phases})
                  <=> DeclaredLength(task[c].header) > 0)

\* C4: when the header block holds a line `Content-Length: n` with n > 0, the
\* content length of the driver is n, ReadingBody is entered, and n is what
\* the max_body_size check is applied to.
C4_BodySizedByContentLength ==
    \A c \in Peers :
        (hist[c].head_ok /\ StandardLength(task[c].header) > 0) =>
            /\ task[c].content_length = StandardLength(task[c].header)
            /\ "ReadingBody" \in {hist[c].phases[i] : i \in DOMAIN hist[c].phases}
            /\ StandardLength(task[c].header) > settings.max_body_size =>
                  (task[c].err.some /\ task[c].err.val.msg = MsgBodyTooLarge)

\* the length of the header block of a stream: up to and including its first
\* "\r\n\r\n"; the whole stream when it has none
HeaderBlockLen(data) ==
    IF FindSub(data, CRLFCRLF) = 0 THEN Len(data) ELSE FindSub(data, CRLFCRLF) + 3

\* C5: read_head never goes on, and never succeeds, with more than
\* max_header_size bytes accumulated: the read that takes the total over the
\* limit fails at once with the size-limit error; and a stream whose header
\* block is longer than max_header_size never gets a body read.
C5_HeaderSizeLimit ==
    \A c \in Peers :
        /\ task[c].pc \in {"read_head", "got_head"} =>
              stream[c].pos <= settings.max_header_size
        /\ task[c].pc = "got_head" =>
              Len(task[c].header) + Len(task[c].body) <= settings.max_header_size
        /\ (hist[c].body_reads = 0 /\ stream[c].pos > settings.max_header_size) =>
              /\ task[c].pc \in {"failed", "done"}
              /\ task[c].err.some
              /\ task[c].err.val.msg = MsgHeaderTooLarge
        /\ HeaderBlockLen(stream[c].data) > settings.max_header_size =>
              /\ ~hist[c].head_ok
              /\ hist[c].body_reads = 0
              /\ task[c].pc \in {"idle", "read_head", "failed", "done"}

\* a header block of max_header_size + 1 bytes was read to its end and refused
C5_Witness ==
    \E c \in Peers :
        /\ FindSub(stream[c].data, CRLFCRLF) > 0
        /\ HeaderBlockLen(stream[c].data) = settings.max_header_size + 1
        /\ stream[c].pos = settings.max_header_size + 1
        /\ task[c].pc = "done"
        /\ task[c].err.val.msg = MsgHeaderTooLarge

\* C6: a content length greater than max_body_size makes read_body fail with
\* the size-limit error before any read of the body, the body being the
\* leftover of read_head unchanged; a content length up to max_body_size
\* (equal included) never fails for size.
C6_BodySizeLimit ==
    \A c \in Peers :
        hist[c].head_ok =>
            /\ task[c].content_length > settings.max_body_size =>
                  /\ task[c].pc \in {"failed", "done"}
                  /\ task[c].err.some
                  /\ task[c].err.val.msg = MsgBodyTooLarge
                  /\ hist[c].body_reads = 0
                  /\ stream[c].pos = Len(task[c].header) + Len(task[c].body)
                  /\ task[c].body =
                         SubSeq(stream[c].data, Len(task[c].header) + 1, stream[c].pos)
            /\ task[c].content_length <= settings.max_body_size =>
                  ~(task[c].err.some /\ task[c].err.val.msg = MsgBodyTooLarge)

\* a declared length over the limit was refused with leftover bytes in hand
C6_Witness ==
    \E c \in Peers :
        /\ hist[c].head_ok
        /\ task[c].content_length > settings.max_body_size
        /\ Len(task[c].body) > 0
        /\ task[c].pc = "done"

\* the bytes read by one step of connection c
JustRead(c) == stream[c].pos' - stream[c].pos

\* C7: in read_head the failure counter is the number of reads that were
\* short of the boundary (shorter than header_buffer, not empty, boundary not
\* yet read); reading goes on while that number is at most
\* header_read_attempts, fails with the budget error exactly at
\* header_read_attempts + 1, and a read that fills the buffer or completes the
\* boundary leaves the counter as it was.
C7_HeaderShortReadBudget ==
    /\ [](\A c \in Peers :
            /\ hist[c].head_short <= settings.header_read_attempts + 1
            /\ task[c].pc = "read_head" =>
                  /\ task[c].read_fails = hist[c].head_short
                  /\ hist[c].head_short <= settings.header_read_attempts
            /\ hist[c].head_ok => hist[c].head_short <= settings.header_read_attempts
            /\ (task[c].err.some /\ task[c].err.val.msg = MsgHeaderAttempts) =>
                  /\ hist[c].head_short = settings.header_read_attempts + 1
                  /\ FindSub(SubSeq(stream[c].data, 1, stream[c].pos), CRLFCRLF) = 0)
    /\ [][\A c \in Peers :
            (task[c].pc = "read_head" /\ JustRead(c) > 0) =>
                /\ (/\ JustRead(c) < settings.header_buffer
                    /\ stream[c].pos' <= settings.max_header_size
                    /\ FindSub(SubSeq(stream[c].data, 1, stream[c].pos'), CRLFCRLF) = 0)
                   => IF hist[c].head_short < settings.header_read_attempts
                      THEN task[c].pc' = "read_head"
                      ELSE /\ task[c].pc' = "failed"
                           /\ task[c].err'.val.msg = MsgHeaderAttempts
                /\ (\/ JustRead(c) = settings.header_buffer
                    \/ FindSub(SubSeq(stream[c].data, 1, stream[c].pos'), CRLFCRLF) > 0)
                   => task[c].read_fails' = task[c].read_fails]_vars

\* read_head succeeded after exactly header_read_attempts short reads, at
\* least one
C7_Witness ==
    \E c \in Peers :
        /\ task[c].pc = "got_head"
        /\ settings.header_read_attempts > 0
        /\ hist[c].head_short = settings.header_read_attempts

\* C8: in read_body the failure counter is the number of reads that returned
\* fewer bytes than were asked for and left the body incomplete; and a body
\* that is complete after at most body_read_attempts such reads, none of its
\* reads having returned an error, is accepted by read_body.
C8_BodyShortReadPolicy ==
    \A c \in Peers :
        (hist[c].head_ok /\ task[c].content_length > 0
            /\ task[c].content_length <= settings.max_body_size) =>
            /\ task[c].read_fails = hist[c].body_short
            /\ (/\ Len(task[c].body) >= task[c].content_length
                /\ hist[c].body_short <= settings.body_read_attempts
                /\ ~hist[c].body_read_err)
               => (\/ task[c].pc = "decode"
                   \/ "Decoded" \in {hist[c].phases[i] : i \in DOMAIN hist[c].phases})

\* C9: when read_head succeeds, the header block is the bytes of the stream
\* up to and including its first "\r\n\r\n", the leftover is the bytes read
\* after it, and the two together are all the bytes read.
C9_SplitLosesNothing ==
    \A c \in Peers :
        task[c].pc = "got_head" =>
            /\ FindSub(stream[c].data, CRLFCRLF) > 0
            /\ task[c].header =
                   SubSeq(stream[c].data, 1, FindSub(stream[c].data, CRLFCRLF) + 3)
            /\ task[c].body =
                   SubSeq(stream[c].data, FindSub(stream[c].data, CRLFCRLF) + 4,
                          stream[c].pos)
            /\ task[c].header \o task[c].body = SubSeq(stream[c].data, 1, stream[c].pos)

\* read_head succeeded on a boundary that came in two reads, with leftover
C9_Witness ==
    \E c \in Peers :
        /\ task[c].pc = "got_head"
        /\ hist[c].straddle
        /\ Len(task[c].body) > 0

\* ------------------------------------------------------------------------
\* Properties of the response encoder
\* ------------------------------------------------------------------------

\* the lines of a serialized response before its first blank line
WireHeadLines(content) ==
    Split(SubSeq(content, 1, FindSub(content, CRLFCRLF) - 1), CRLF)

\* C10: the bytes to_vec produces hold a Content-Length line, every
\* Content-Length line of them carries the byte length of the body (0 without
\* a body), and the bytes after the blank line are the body.
C10_ContentLengthIsBodyLength ==
    call.ret.some =>
        LET b == IF call.arg.val.body.some THEN call.arg.val.body.val ELSE <<>>
            lines == WireHeadLines(call.ret.val)
            named == {i \in 1..Len(lines) : StartsWith(lines[i], B("Content-Length: "))}
        IN  /\ named # {}
            /\ \A i \in named :
                   ParseUsize(SubSeq(lines[i], Len(B("Content-Length: ")) + 1,
                                     Len(lines[i]))) = Len(b)
            /\ WireBody(call.ret.val) = b

\* ------------------------------------------------------------------------
\* Properties of the reading loops
\* ------------------------------------------------------------------------

\* the stream holds a whole request: a header block and at least the bytes
\* the driver takes as the length of its body
RequestComplete(data) ==
    /\ FindSub(data, CRLFCRLF) > 0
    /\ Len(data) - (FindSub(data, CRLFCRLF) + 3) >=
           LengthOfLines(Lines(SubSeq(data, 1, FindSub(data, CRLFCRLF) + 3)),
                         LAMBDA v : v, 0)

\* a step of connection c that is a read returning no byte
ReadNothing(c) ==
    /\ task[c].pc \in {"read_head", "read_body"}
    /\ task'[c] # task[c]
    /\ stream'[c].pos = stream[c].pos

\* C18: in read_head a read of zero bytes or a read error fails at once; in
\* read_body a read error fails at once and a read of zero bytes counts as a
\* failed attempt, the loop going on only while at most body_read_attempts
\* attempts have failed.  Neither loop runs forever: a read after which
\* read_head goes on has consumed bytes of the stream, a read after which
\* read_body goes on has consumed bytes or used up an attempt, and the reads of
\* read_body are at most content_length + body_read_attempts + 1.  A
\* connection whose peer stops before the request is complete never gets
\* decoded, and ends failed.
C18_ClosedStreamFails ==
    /\ [](\A c \in Peers :
            /\ task[c].pc = "read_body" =>
                  task[c].read_fails <= settings.body_read_attempts
            /\ hist[c].body_reads <=
                  task[c].content_length + settings.body_read_attempts + 1
            /\ (task[c].pc # "idle" /\ ~RequestComplete(stream[c].data)) =>
                  /\ task[c].pc \in {"read_head", "got_head", "read_body", "failed", "done"}
                  /\ ~task[c].request.some
                  /\ task[c].pc = "done" => task[c].err.some)
    /\ [][\A c \in Peers :
            /\ (ReadNothing(c) /\ task[c].pc = "read_head") =>
                  /\ task'[c].pc = "failed"
                  /\ task'[c].err.val.msg = MsgHeaderReadFailed
            /\ (ReadNothing(c) /\ task[c].pc = "read_body") =>
                  IF hist'[c].body_read_err
                  THEN /\ task'[c].pc = "failed"
                       /\ task'[c].err.val.msg = MsgBodyReadFailed
                  ELSE /\ task'[c].read_fails = task[c].read_fails + 1
                       /\ IF task[c].read_fails < settings.body_read_attempts
                          THEN task'[c].pc = "read_body"
                          ELSE /\ task'[c].pc = "failed"
                               /\ task'[c].err.val.msg = MsgBodyReadFailed
            /\ (task[c].pc = "read_head" /\ task'[c].pc = "read_head") =>
                  stream'[c].pos > stream[c].pos
            /\ (task[c].pc = "read_body" /\ task'[c].pc = "read_body") =>
                  \/ stream'[c].pos > stream[c].pos
                  \/ task'[c].read_fails > task[c].read_fails]_vars

\* the peer closed inside the body, and read_body gave up after
\* body_read_attempts + 1 reads of zero bytes, at least two
C18_Witness ==
    \E c \in Peers :
        /\ stream[c].data = ReqBodyCut
        /\ task[c].pc = "done"
        /\ task[c].err.some
        /\ task[c].err.val.msg = MsgBodyReadFailed
        /\ ~hist[c].body_read_err
        /\ settings.body_read_attempts > 0
        /\ Len(task[c].body) = 1
        /\ hist[c].body_reads = settings.body_read_attempts + 1

\* C19: the accumulated body never grows past the content length of the
\* driver, and when handle_conn reaches HttpRequest::from with a content
\* length n > 0 the body passed to it has exactly n bytes.
C19_BodyHasDeclaredLength ==
    \A c \in Peers :
        (hist[c].head_ok /\ task[c].content_length > 0) =>
            /\ Len(task[c].body) <= task[c].content_length
            /\ (\/ task[c].pc = "decode"
                \/ "Decoded" \in {hist[c].phases[i] : i \in DOMAIN hist[c].phases})
               => Len(task[c].body) = task[c].content_length

\* ------------------------------------------------------------------------
\* The server with peers that send a whole request, which the first read of
\* read_head returns in one piece
\* ------------------------------------------------------------------------

\* the bytes of a request: request line, header fields, the length of the
\* body when it has one, blank line, body
RequestBytes(line, fields, body) ==
    line \o CRLF
         \o Flatten([i \in 1..Len(fields) |-> fields[i] \o CRLF])
         \o (IF Len(body) > 0
             THEN B("Content-Length:") \o ToDecimal(Len(body)) \o CRLF
             ELSE <<>>)
         \o CRLF \o body

\* the request of the end-to-end example
ReqQueryGet == B("GET /?x=1 HTTP/1.1\r\nHost: h\r\n\r\n")

MethodTokens == {B("OPTIONS"), B("GET"), B("POST"), B("get"), B("Post"), B("PUT")}

VersionTokens == {B("HTTP/1.1"), B("HTTP/2.0"), B("HTTP/1.0"), B("http/1.1")}

TokenRequest(m, v) == RequestBytes(m \o B(" / ") \o v, <<>>, <<>>)

TokenRequests == {TokenRequest(m, v) : m \in MethodTokens, v \in VersionTokens}

\* the pieces of a query string: a key, with or without "=" and a value
QueryPieces ==
    [key : {B("a"), B("b"), B("A")},
     val : {None, Some(<<>>), Some(B("1")), Some(B("2")), Some(B("b=c"))}]

\* the pieces of a form body: blanks around keys and values
FormPieces == [key : {B(" A "), B("b")}, val : {None, Some(B(" 1 ")), Some(B("2"))}]

MaxPieces == 2

PieceSeqs(pieces) == UNION {[1..n -> pieces] : n \in 1..MaxPieces}

PieceText(piece) ==
    piece.key \o (IF piece.val.some THEN <<"=">> \o piece.val.val ELSE <<>>)

\* the pieces joined by "&"
RECURSIVE QueryOf(_)
QueryOf(ps) ==
    IF Len(ps) = 1 THEN PieceText(ps[1])
    ELSE PieceText(ps[1]) \o <<"&">> \o QueryOf(Tail(ps))

QueryRequest(ps) ==
    RequestBytes(B("GET /p?") \o QueryOf(ps) \o B(" HTTP/1.1"), <<>>, <<>>)

QueryRequests == {QueryRequest(ps) : ps \in PieceSeqs(QueryPieces)}

FormField == B("Content-Type: application/x-www-form-urlencoded")

FormRequest(ps) == RequestBytes(B("POST /f HTTP/1.1"), <<FormField>>, QueryOf(ps))

\* a form request with an empty body
EmptyFormRequest == RequestBytes(B("POST /f HTTP/1.1"), <<FormField>>, <<>>)

FormRequests == {FormRequest(ps) : ps \in PieceSeqs(FormPieces)} \cup {EmptyFormRequest}

\* the boundary of the multipart bodies
Boundary == B("X")

MultipartField == B("Content-Type: multipart/form-data; boundary=") \o Boundary

\* the parts of a multipart body: a name and a value of one line
Parts == [name : {B("a"), B("b"), B("file")}, value : {<<>>, B("1"), B("hello")}]

MaxParts == 2

PartSeqs == UNION {[1..n -> Parts] : n \in 1..MaxParts}

\* one part: delimiter, Content-Disposition with the quoted name, blank line,
\* value
PartText(part) ==
    B("--") \o Boundary \o CRLF
        \o B("Content-Disposition: form-data; name=\"") \o part.name \o B("\"") \o CRLF
        \o CRLF \o part.value \o CRLF

\* the parts followed by the closing delimiter
MultipartBody(ps) ==
    Flatten([i \in 1..Len(ps) |-> PartText(ps[i])])
        \o B("--") \o Boundary \o B("--") \o CRLF

MultipartRequest(ps) ==
    RequestBytes(B("POST /f HTTP/1.1"), <<MultipartField>>, MultipartBody(ps))

MultipartRequests == {MultipartRequest(ps) : ps \in PartSeqs}

\* values of the Content-Type header
ContentTypes ==
    {B("application/x-www-form-urlencoded"), B("Application/X-WWW-Form-Urlencoded"),
     B("multipart/form-data; boundary=X"), B("Multipart/Form-Data; boundary=X"),
     B("text/plain"), B("application/json"), B("TEXT/HTML")}

TypedBodies == {B("a=1"), MultipartBody(<<[name |-> B("file"), value |-> B("hello")]>>)}

TypedRequest(type, body) ==
    RequestBytes(B("POST /f HTTP/1.1"), <<B("Content-Type: ") \o type>>, body)

\* a body without a Content-Type header
UntypedRequest(body) == RequestBytes(B("POST /f HTTP/1.1"), <<>>, body)

TypedRequests ==
    {TypedRequest(type, body) : type \in ContentTypes, body \in TypedBodies}
        \cup {UntypedRequest(body) : body \in TypedBodies}

\* request lines with a missing token
ShortLines == {<<>>, B("GET"), B("GET /")}

\* multipart bodies with a part that lacks its name or its value
BodyNoNameAttribute ==
    B("--X\r\nContent-Disposition: form-data\r\n\r\nv\r\n--X--\r\n")

BodyNoDisposition == B("--X\r\n\r\nv\r\n--X--\r\n")

BodyEmptyName == B("--X\r\nContent-Disposition: form-data; name=\r\n\r\nv\r\n--X--\r\n")

BodyEmptyQuotedName ==
    B("--X\r\nContent-Disposition: form-data; name=\"\"\r\n\r\nv\r\n--X--\r\n")

BodyUnquotedName ==
    B("--X\r\nContent-Disposition: form-data; name=file\r\n\r\nv\r\n--X--\r\n")

BodyNoValueLine == B("--X\r\nContent-Disposition: form-data; name=\"a\"\r\n--X--\r\n")

BodyNoValueAfterBlank ==
    B("--X\r\nContent-Disposition: form-data; name=\"a\"\r\n\r\n--X--\r\n")

BodyOnlyDelimiters == B("--X\r\n--X--\r\n")

MalformedBodies ==
    {BodyNoNameAttribute, BodyNoDisposition, BodyEmptyName, BodyEmptyQuotedName,
     BodyUnquotedName, BodyNoValueLine, BodyNoValueAfterBlank, BodyOnlyDelimiters}

\* a multipart type without the boundary attribute
NoBoundaryRequest ==
    TypedRequest(B("multipart/form-data"), MultipartBody(<<[name |-> B("a"), value |-> B("1")]>>))

MalformedRequests ==
    {RequestBytes(line, <<>>, <<>>) : line \in ShortLines}
        \cup {RequestBytes(B("POST /f HTTP/1.1"), <<MultipartField>>, body) :
                  body \in MalformedBodies}
        \cup {NoBoundaryRequest, ReqBadUtf8}

DecodeStreams ==
    {ReqQueryGet} \cup TokenRequests \cup QueryRequests \cup FormRequests
        \cup MultipartRequests \cup TypedRequests \cup MalformedRequests

InitDecode ==
    /\ Start({"c1"})
    /\ settings = DefaultSettings
    /\ call = NoCall

\* Server::run 49-53: a connection is accepted from a peer that sends one of
\* the requests
AcceptRequest(c) ==
    /\ c \in peers
    /\ task[c].pc = "idle"
    /\ \E data \in DecodeStreams :
          stream' = [stream EXCEPT ![c].data = data]
    /\ task' = [task EXCEPT ![c].pc = "read_head"]
    /\ hist' = [hist EXCEPT ![c].phases = <<"Accepted", "ReadingHeader">>]
    /\ UNCHANGED <<settings, peers, call>>

\* the first stream.read of read_head returns all the bytes the peer sent
ReadWhole(c) ==
    /\ task[c].pc = "read_head"
    /\ stream[c].pos = 0
    /\ Len(stream[c].data) > 0
    /\ Len(stream[c].data) <= settings.header_buffer
    /\ task' = [task EXCEPT ![c] = read_head(settings, @, Ok(stream[c].data))]
    /\ stream' = [stream EXCEPT ![c] = Consumed(@, Ok(stream[c].data))]
    /\ UNCHANGED <<settings, peers, hist, call>>

NextDecode ==
    \E c \in Peers :
        \/ AcceptRequest(c)
        \/ ReadWhole(c)
        \/ AfterHead(c)
        \/ Decode(c)
        \/ Dispatch(c)
        \/ WriteResponse(c)
        \/ WriteError(c)

SpecDecode == InitDecode /\ [][NextDecode]_vars

\* ------------------------------------------------------------------------
\* Properties of the request decoder
\* ------------------------------------------------------------------------

\* HttpRequest::from was called for the connection
Decoded(c) == "Decoded" \in {hist[c].phases[i] : i \in DOMAIN hist[c].phases}

\* C11: the request `GET /?x=1 HTTP/1.1\r\nHost: h\r\n\r\n` with no body
\* decodes to method Get, url `/?x=1`, search_params {x: 1} and a body mapping
\* without entries.
C11_BodilessGet ==
    \A c \in Peers :
        (stream[c].data = ReqQueryGet /\ Decoded(c)) =>
            /\ task[c].request.some
            /\ task[c].request.val.method = "Get"
            /\ task[c].request.val.url = B("/?x=1")
            /\ task[c].request.val.search_params = Insert(EmptyMap, B("x"), B("1"))
            /\ DOMAIN task[c].request.val._body = {}

\* the body mapping of a request with Content-Type value type: the decoder
\* chosen by the lower-cased, trimmed value
BodyByType(type, body) ==
    IF StartsWith(ToLower(Trim(type)), APPLICATION_X_WWW_FORM_URLENCODED)
    THEN parse_parameters(body)
    ELSE IF StartsWith(ToLower(Trim(type)), MULTIPART_FORM_DATA)
    THEN parse_multipart_form(body, Boundary)
    ELSE Ok(Insert(EmptyMap, B("__raw"), body))

\* C12: the body of a request is decoded by the decoder its lower-cased,
\* trimmed Content-Type value selects: the form decoder, the multipart
\* decoder, and for every other type, or without the header, the mapping of
\* `__raw` to the whole body.
C12_ContentTypeDispatch ==
    \A c \in Peers :
        Decoded(c) =>
            /\ \A type \in ContentTypes, body \in TypedBodies :
                   stream[c].data = TypedRequest(type, body) =>
                       /\ task[c].request.some
                       /\ Ok(task[c].request.val._body) = BodyByType(type, body)
            /\ \A body \in TypedBodies :
                   stream[c].data = UntypedRequest(body) =>
                       /\ task[c].request.some
                       /\ task[c].request.val._body = Insert(EmptyMap, B("__raw"), body)

\* the mapping of the names of parts to their values, a later part replacing
\* an earlier one of the same name
RECURSIVE PartsMap(_, _)
PartsMap(ps, m) ==
    IF Len(ps) = 0 THEN m
    ELSE PartsMap(Tail(ps), Insert(m, Head(ps).name, Head(ps).value))

\* each multipart request of the model with the mapping of its parts
MultipartTable == {<<MultipartRequest(ps), PartsMap(ps, EmptyMap)>> : ps \in PartSeqs}

\* C13: a multipart/form-data body of n >= 1 parts with single-line values,
\* followed by the closing delimiter, decodes to the mapping of the names of
\* the parts to their values, the later part winning for a repeated name: no
\* part is dropped and no value shortened.
C13_MultipartKeepsParts ==
    \A c \in Peers :
        (Decoded(c) /\ stream[c].data \in MultipartRequests) =>
            /\ task[c].request.some
            /\ <<stream[c].data, task[c].request.val._body>> \in MultipartTable

\* two parts of different names were decoded, the first with an empty value
C13_Witness ==
    \E c \in Peers :
        /\ stream[c].data =
               MultipartRequest(<<[name |-> B("file"), value |-> <<>>],
                                  [name |-> B("a"), value |-> B("hello")]>>)
        /\ task[c].request.some
        /\ DOMAIN task[c].request.val._body = {B("file"), B("a")}
        /\ task[c].pc = "done"

\* C14: a request with a missing request-line token, an invalid UTF-8 header
\* block, a multipart type without boundary, or a multipart part without name
\* or value is never accepted, never ends the task without a response, and is
\* answered with 400 Bad Request.
C14_MalformedIsBadRequest ==
    \A c \in Peers :
        (stream[c].data \in MalformedRequests /\ task[c].pc # "idle") =>
            /\ ~task[c].request.some
            /\ task[c].pc # "panicked"
            /\ task[c].pc = "done" =>
                  /\ task[c].err.some
                  /\ Len(stream[c].written) = 1
                  /\ WireStatusLine(stream[c].written[1].content) =
                         B("HTTP/1.1 400 Bad Request")

\* the method of a request-line token
MethodOfToken(m) ==
    IF m = B("OPTIONS") THEN "Options"
    ELSE IF m = B("GET") THEN "Get"
    ELSE IF m = B("POST") THEN "Post"
    ELSE "Unknown"

\* the version of a request-line token
VersionOfToken(v) ==
    IF v = B("HTTP/1.1") THEN "V1_1"
    ELSE IF v = B("HTTP/2.0") THEN "V2_0"
    ELSE "Unknown"

\* C15: a request line with any method token and any version token decodes
\* without failure, to the method and version that match the tokens exactly
\* (case included) and to the variant Unknown otherwise, and the connection
\* goes on to the dispatcher.
C15_UnknownTokensAccepted ==
    \A c \in Peers :
        Decoded(c) =>
            \A m \in MethodTokens, v \in VersionTokens :
                stream[c].data = TokenRequest(m, v) =>
                    /\ task[c].request.some
                    /\ ~task[c].err.some
                    /\ task[c].request.val.method = MethodOfToken(m)
                    /\ task[c].request.val.version = VersionOfToken(v)
                    /\ task[c].pc \in {"route", "write", "done"}
                    /\ task[c].pc \in {"write", "done"} => hist[c].routed = 1

\* a request with an unrecognised method and version was answered by the
\* dispatcher
C15_Witness ==
    \E c \in Peers :
        /\ stream[c].data = TokenRequest(B("PUT"), B("HTTP/1.0"))
        /\ task[c].pc = "done"
        /\ task[c].response.some
        /\ task[c].request.val.method = "Unknown"
        /\ task[c].request.val.version = "Unknown"

\* the mapping of the pieces of a query: lower-cased, trimmed key to trimmed
\* value, the empty string without "=", a later piece replacing an earlier
\* one of the same key
RECURSIVE PiecesMap(_, _)
PiecesMap(ps, m) ==
    IF Len(ps) = 0 THEN m
    ELSE PiecesMap(Tail(ps),
             Insert(m, ToLower(Trim(Head(ps).key)),
                    IF Head(ps).val.some THEN Trim(Head(ps).val.val) ELSE <<>>))

\* each query request of the model with the mapping of its pieces
QueryTable ==
    {<<QueryRequest(ps), PiecesMap(ps, EmptyMap)>> : ps \in PieceSeqs(QueryPieces)}

\* each form request of the model with the mapping of its pieces
FormTable ==
    {<<FormRequest(ps), PiecesMap(ps, EmptyMap)>> : ps \in PieceSeqs(FormPieces)}

\* C16: a query string (and a form body) of pieces joined by "&" parses to
\* the mapping of each lower-cased, trimmed key to its trimmed value: the
\* empty string for a piece without "=", the piece cut at its first "=" only,
\* the last occurrence of a key winning.
C16_QueryParsing ==
    \A c \in Peers :
        /\ (Decoded(c) /\ stream[c].data \in QueryRequests) =>
              /\ task[c].request.some
              /\ <<stream[c].data, task[c].request.val.search_params>> \in QueryTable
        /\ (Decoded(c) /\ stream[c].data \in FormRequests \ {EmptyFormRequest}) =>
              /\ task[c].request.some
              /\ <<stream[c].data, task[c].request.val._body>> \in FormTable

\* the query `a=b=c&a` was parsed: cut at the first "=", the later bare key
\* winning
C16_Witness ==
    \E c \in Peers :
        /\ stream[c].data =
               QueryRequest(<<[key |-> B("a"), val |-> Some(B("b=c"))],
                              [key |-> B("A"), val |-> None]>>)
        /\ task[c].request.some
        /\ task[c].request.val.search_params = Insert(EmptyMap, B("a"), <<>>)

\* C20: a request whose header block holds no "?" decodes to search_params
\* without entries, and a form request with an empty body to a body mapping
\* without entries.
C20_EmptyInputNoEntry ==
    \A c \in Peers :
        (Decoded(c) /\ task[c].request.some) =>
            /\ FindSub(task[c].header, <<"?">>) = 0 =>
                  DOMAIN task[c].request.val.search_params = {}
            /\ stream[c].data = EmptyFormRequest =>
                  DOMAIN task[c].request.val._body = {}

\* ------------------------------------------------------------------------
\* The server with two connections whose tasks run interleaved
\* ------------------------------------------------------------------------

\* the requests of the two peers, short ones: answered by the dispatcher,
\* panicking in the handler, failing in the decoder, cut short
ReqTinyIndex == B("GET / V\r\n\r\n")

ReqTinyStar == B("GET * V\r\n\r\n")

ReqTinyNoVersion == B("GET\r\n\r\n")

ReqTinyCut == B("GET /")

ConcStreams == {ReqTinyIndex, ReqTinyStar, ReqTinyNoVersion, ReqTinyCut}

InitConc ==
    /\ Start(Peers)
    /\ settings = DefaultSettings
    /\ call = NoCall

\* Server::run 49-53: the listener accepts the connection of peer c, whatever
\* the tasks spawned before are doing, and spawns its task
AcceptConc(c) ==
    /\ c \in peers
    /\ task[c].pc = "idle"
    /\ \E data \in ConcStreams :
          stream' = [stream EXCEPT ![c].data = data]
    /\ task' = [task EXCEPT ![c].pc = "read_head"]
    /\ hist' = [hist EXCEPT ![c].phases = <<"Accepted", "ReadingHeader">>]
    /\ UNCHANGED <<settings, peers, call>>

NextConc ==
    \E c \in Peers :
        \/ AcceptConc(c)
        \/ ReadHead(c)
        \/ AfterHead(c)
        \/ Decode(c)
        \/ Dispatch(c)
        \/ WriteResponse(c)
        \/ WriteError(c)

SpecConc == InitConc /\ [][NextConc]_vars

\* ------------------------------------------------------------------------
\* Properties of the interleaving
\* ------------------------------------------------------------------------

\* what belongs to connection c
Local(c) == <<task[c], stream[c], hist[c]>>

\* C17: the outcome of every connection derives from its own stream and
\* address alone (the bytes consumed are a prefix of its own stream, the
\* request is the decoding of its own header block and body, the response is
\* what the dispatcher returns for its own request, the bytes written are the
\* encoding of its own response or failure); a step changes one connection
\* only and never the settings; and whatever state the other connection is
\* in, running, failed, panicked or waiting for bytes, the listener can accept
\* a connection and a task waiting for a read can go on.
C17_ConnectionsIsolated ==
    /\ [](\A c \in Peers :
            /\ hist[c].head_ok =>
                  task[c].header \o task[c].body = SubSeq(stream[c].data, 1, stream[c].pos)
            /\ task[c].request.some =>
                  HttpRequestFrom(task[c].header, task[c].body, PeerIp(c))
                      = Ok(task[c].request.val)
            /\ task[c].response.some =>
                  \E fs \in FileSystems : Route(fs, task[c].request.val).val = task[c].response.val
            /\ task[c].pc = "done" =>
                  /\ Len(stream[c].written) = 1
                  /\ stream[c].written[1].content =
                         IF task[c].err.some
                         THEN ToVec(NewResponse("BadRequest", None, Some(task[c].err.val.msg)))
                         ELSE ToVec(task[c].response.val)
            /\ (c \in peers /\ task[c].pc = "idle") => ENABLED AcceptConc(c)
            /\ task[c].pc = "read_head" => ENABLED ReadHead(c))
    /\ [][/\ settings' = settings
          /\ \A c, d \in Peers : (c # d /\ Local(c)' # Local(c)) => Local(d)' = Local(d)]_vars

\* the task of the first connection panicked and the second connection was
\* answered by the dispatcher
C17_Witness ==
    /\ task["c1"].pc = "panicked"
    /\ task["c2"].pc = "done"
    /\ task["c2"].response.some
    /\ stream["c2"].data = ReqTinyIndex
    /\ Len(stream["c2"].written) = 1

====
